---- MODULE Spec2Model ----
(***************************************************************************)
(* Model of micro_http/src/request.rs: the request-line tokenizer (split), *)
(* the URI path extractor (Uri::get_abs_path), RequestLine::try_from and   *)
(* Request::try_from with its accessors.                                   *)
(*                                                                         *)
(* A byte slice is a sequence of integers 0..255.  Rust indices are        *)
(* 0-based, TLA+ sequences 1-based: bytes[i] of the source is bytes[i+1]   *)
(* here, and &bytes[a..b] is Slice(bytes, a, b).  A failed bounds check or *)
(* a failed unwrap is a panic; every operation that can reach one returns  *)
(* a record that says whether it did.                                      *)
(***************************************************************************)
EXTENDS Integers, Sequences, FiniteSets, TLC

VARIABLES bytes, separator, pc, ret, request, path, version, twin, twin_request

vars == <<bytes, separator, pc, ret, request, path, version, twin, twin_request>>

----------------------------------------------------------------------------
(* Bytes and canonical representations *)

CR == 13
LF == 10
SP == 32

\* b'/'
SLASH == 47

\* Method::Get.raw()
GET == <<71, 69, 84>>

\* Version::Http10.raw(), Version::Http11.raw()
HTTP10 == <<72, 84, 84, 80, 47, 49, 46, 48>>
HTTP11 == <<72, 84, 84, 80, 47, 49, 46, 49>>

\* b"http://"
http_scheme_prefix == <<104, 116, 116, 112, 58, 47, 47>>

\* &bytes[from..to] with 0-based, half-open bounds; in bounds iff SliceOk.
SliceOk(b, from, to) == from <= to /\ to <= Len(b)
Slice(b, from, to) == SubSeq(b, from + 1, to)

\* bytes.starts_with(prefix)
starts_with(b, prefix) ==
    Len(b) >= Len(prefix) /\ SubSeq(b, 1, Len(prefix)) = prefix

----------------------------------------------------------------------------
(* split *)

\* Plausible bug: the not-found case returns (bytes, empty).
split_notfound_swapped(b, sep) ==
    IF \E i \in 1..Len(b) : b[i] = sep
    THEN LET i == CHOOSE k \in 1..Len(b) :
                      b[k] = sep /\ \A j \in 1..(k - 1) : b[j] # sep
         IN  [before |-> SubSeq(b, 1, i - 1), after |-> SubSeq(b, i + 1, Len(b))]
    ELSE [before |-> b, after |-> <<>>]

\* Plausible bug: the scan keeps the last occurrence of the separator.
split_last(b, sep) ==
    IF \E i \in 1..Len(b) : b[i] = sep
    THEN LET i == CHOOSE k \in 1..Len(b) :
                      b[k] = sep /\ \A j \in (k + 1)..Len(b) : b[j] # sep
         IN  [before |-> SubSeq(b, 1, i - 1), after |-> SubSeq(b, i + 1, Len(b))]
    ELSE [before |-> <<>>, after |-> b]

\* The loop `for index in 0..bytes.len()` from `index` on.
RECURSIVE split_loop(_, _, _)
split_loop(b, sep, index) ==
    IF index >= Len(b)
    THEN [before |-> <<>>, after |-> b]
    ELSE IF b[index + 1] = sep
         THEN IF index + 1 < Len(b)
              THEN [before |-> Slice(b, 0, index),
                    after  |-> Slice(b, index + 1, Len(b))]
              ELSE [before |-> Slice(b, 0, index), after |-> <<>>]
         ELSE split_loop(b, sep, index + 1)

split(b, sep) == split_loop(b, sep, 0)

----------------------------------------------------------------------------
(* Uri::get_abs_path *)

\* Plausible bug: the path starts after the '/' that ends the host.
get_abs_path_skips_slash(uri) ==
    IF starts_with(uri, http_scheme_prefix)
    THEN IF Len(uri) = Len(http_scheme_prefix)
         THEN [panic |-> FALSE, path |-> <<>>]
         ELSE LET host == split(Slice(uri, Len(http_scheme_prefix), Len(uri)), SLASH).before
              IN  IF Len(host) = 0
                  THEN [panic |-> FALSE, path |-> <<>>]
                  ELSE [panic |-> FALSE,
                        path  |-> Slice(uri, Len(http_scheme_prefix) + Len(host) + 1, Len(uri))]
    ELSE IF Len(uri) = 0 \/ uri[1] # SLASH
         THEN [panic |-> FALSE, path |-> <<>>]
         ELSE [panic |-> FALSE, path |-> uri]

get_abs_path(uri) ==
    IF starts_with(uri, http_scheme_prefix)
    THEN IF Len(uri) = Len(http_scheme_prefix)
         THEN [panic |-> FALSE, path |-> <<>>]
         ELSE \* &self.bytes[http_scheme_prefix.len()..] is in bounds by starts_with
              LET host == split(Slice(uri, Len(http_scheme_prefix), Len(uri)), SLASH).before
              IN  IF Len(host) = 0
                  THEN [panic |-> FALSE, path |-> <<>>]
                  ELSE LET path_start_index == Len(http_scheme_prefix) + Len(host)
                       IN  IF SliceOk(uri, path_start_index, Len(uri))
                           THEN [panic |-> FALSE,
                                 path  |-> Slice(uri, path_start_index, Len(uri))]
                           ELSE [panic |-> TRUE, path |-> <<>>]
    ELSE \* self.bytes[0]: index out of bounds on an empty slice
         IF Len(uri) = 0
         THEN [panic |-> TRUE, path |-> <<>>]
         ELSE IF uri[1] # SLASH
              THEN [panic |-> FALSE, path |-> <<>>]
              ELSE [panic |-> FALSE, path |-> uri]

----------------------------------------------------------------------------
(* RequestLine *)

\* A continuation byte of a UTF-8 sequence.
utf8_cont(b) == b >= 128 /\ b <= 191

\* std::str::from_utf8(uri).is_ok(): well-formed UTF-8, without overlong
\* forms, surrogates or code points above U+10FFFF.
RECURSIVE from_utf8_is_ok(_)
from_utf8_is_ok(s) ==
    IF s = <<>> THEN TRUE
    ELSE LET b == s[1]
             n == Len(s)
         IN  IF b < 128 THEN from_utf8_is_ok(SubSeq(s, 2, n))
             ELSE IF b >= 194 /\ b <= 223
                  THEN n >= 2 /\ utf8_cont(s[2]) /\ from_utf8_is_ok(SubSeq(s, 3, n))
             ELSE IF b >= 224 /\ b <= 239
                  THEN /\ n >= 3
                       /\ utf8_cont(s[2]) /\ utf8_cont(s[3])
                       /\ (b = 224 => s[2] >= 160)
                       /\ (b = 237 => s[2] <= 159)
                       /\ from_utf8_is_ok(SubSeq(s, 4, n))
             ELSE IF b >= 240 /\ b <= 244
                  THEN /\ n >= 4
                       /\ utf8_cont(s[2]) /\ utf8_cont(s[3]) /\ utf8_cont(s[4])
                       /\ (b = 240 => s[2] >= 144)
                       /\ (b = 244 => s[2] <= 143)
                       /\ from_utf8_is_ok(SubSeq(s, 5, n))
             ELSE FALSE

validate_method(method) ==
    IF method # GET THEN "InvalidHttpMethod" ELSE "Ok"

validate_uri(uri) ==
    IF Len(uri) = 0 THEN "InvalidUri"
    ELSE IF ~from_utf8_is_ok(uri) THEN "InvalidUri"
    ELSE "Ok"

validate_version(v) ==
    IF v # HTTP10 /\ v # HTTP11 THEN "InvalidHttpVersion" ELSE "Ok"

\* Plausible bug: every trailing CR is stripped, not one.
RECURSIVE remove_all_trailing_cr(_)
remove_all_trailing_cr(v) ==
    IF Len(v) > 1 /\ v[Len(v)] = CR
    THEN remove_all_trailing_cr(Slice(v, 0, Len(v) - 1))
    ELSE v

remove_trailing_cr(v) ==
    IF Len(v) > 1 /\ v[Len(v)] = CR
    THEN Slice(v, 0, Len(v) - 1)
    ELSE v

\* Version::try_from(bytes): the variant whose canonical bytes these are.
Version_try_from(v) ==
    IF v = HTTP10 THEN [ok |-> TRUE, version |-> "Http10"]
    ELSE IF v = HTTP11 THEN [ok |-> TRUE, version |-> "Http11"]
    ELSE [ok |-> FALSE, version |-> "none"]

\* A Result<RequestLine, Error>, or the panic of a failed unwrap.
Err(kind) ==
    [kind |-> kind, method |-> "none", uri |-> <<>>, http_version |-> "none"]

\* Plausible bug: the URI is validated before the method.
RequestLine_try_from_uri_first(request_line) ==
    LET s1 == split(request_line, SP)
        s2 == split(s1.after, SP)
        s3 == split(s2.after, LF)
        v  == remove_trailing_cr(s3.before)
    IN  IF validate_uri(s2.before) # "Ok" THEN Err(validate_uri(s2.before))
        ELSE IF validate_method(s1.before) # "Ok" THEN Err(validate_method(s1.before))
        ELSE IF validate_version(v) # "Ok" THEN Err(validate_version(v))
        ELSE [kind |-> "Ok", method |-> "Get", uri |-> s2.before,
              http_version |-> Version_try_from(v).version]

RequestLine_try_from(request_line) ==
    LET s1 == split(request_line, SP)
        method == s1.before
    IN  IF validate_method(method) # "Ok" THEN Err(validate_method(method))
        ELSE
        LET s2 == split(s1.after, SP)
            uri == s2.before
        IN  IF validate_uri(uri) # "Ok" THEN Err(validate_uri(uri))
            ELSE
            LET s3 == split(s2.after, LF)
                v  == remove_trailing_cr(s3.before)
            IN  IF validate_version(v) # "Ok" THEN Err(validate_version(v))
                ELSE IF ~Version_try_from(v).ok THEN Err("panic")
                ELSE [kind |-> "Ok", method |-> "Get", uri |-> uri,
                      http_version |-> Version_try_from(v).version]

\* Plausible bug: the separators are left out of the minimum.
min_len_without_separators == Len(GET) + 1 + Len(HTTP10)

min_len == Len(GET) + 1 + Len(HTTP10) + 3

----------------------------------------------------------------------------
(* Request *)

\* Plausible bug: the length guard is missing.
Request_try_from_unguarded(byte_stream) ==
    LET request_line == split(byte_stream, LF).before
    IN  IF ~SliceOk(byte_stream, 0, Len(request_line) + 1) THEN Err("panic")
        ELSE RequestLine_try_from(Slice(byte_stream, 0, Len(request_line) + 1))

\* Plausible bug: the guard measures the whole buffer, not the first line.
Request_try_from_guards_buffer(byte_stream) ==
    LET request_line == split(byte_stream, LF).before
    IN  IF Len(byte_stream) < min_len THEN Err("InvalidRequest")
        ELSE IF ~SliceOk(byte_stream, 0, Len(request_line) + 1) THEN Err("panic")
        ELSE RequestLine_try_from(Slice(byte_stream, 0, Len(request_line) + 1))

\* Plausible bug: every parsing failure is reported as InvalidRequest.
Request_try_from_generic_error(byte_stream) ==
    LET request_line == split(byte_stream, LF).before
    IN  IF Len(request_line) < min_len THEN Err("InvalidRequest")
        ELSE IF ~SliceOk(byte_stream, 0, Len(request_line) + 1) THEN Err("panic")
        ELSE LET r == RequestLine_try_from(Slice(byte_stream, 0, Len(request_line) + 1))
             IN  IF r.kind = "Ok" THEN r ELSE Err("InvalidRequest")

Request_try_from(byte_stream) ==
    LET request_line == split(byte_stream, LF).before
    IN  IF Len(request_line) < min_len THEN Err("InvalidRequest")
        \* &byte_stream[..=request_line.len()]
        ELSE IF ~SliceOk(byte_stream, 0, Len(request_line) + 1) THEN Err("panic")
        ELSE RequestLine_try_from(Slice(byte_stream, 0, Len(request_line) + 1))

\* Request::uri
Request_uri(req) == req.uri

\* Request::http_version
Request_http_version(req) == req.http_version

----------------------------------------------------------------------------
(* Inputs *)

MaxCR == 2
MaxPad == 3
MaxUriTail == 4
MaxSplitLen == 4

Repeat(b, n) == [i \in 1..n |-> b]

SeqsUpTo(A, n) == UNION {[1..k -> A] : k \in 0..n}

PUT == <<80, 85, 84>>
HTTP20 == <<72, 84, 84, 80, 47, 50, 46, 48>>

\* "Host: a\r\n"
HEADER == <<72, 111, 115, 116, 58, 32, 97, 13, 10>>

Methods == {<<>>, GET, PUT, <<71, 69>>}

Seps == {<<>>, <<SP>>}

Uris ==
    {<<>>, <<SLASH>>, <<97>>, <<255>>, <<195, 169>>, <<SLASH, 195>>,
     <<SLASH, 97, LF, 98>>,
     http_scheme_prefix,
     http_scheme_prefix \o <<104>>,
     http_scheme_prefix \o <<104, SLASH>>,
     http_scheme_prefix \o <<104, SLASH, 97>>,
     http_scheme_prefix \o <<SLASH, 97>>}
    \cup {<<SLASH>> \o Repeat(97, n) : n \in 1..MaxPad}

Versions == {<<>>, HTTP10, HTTP11, HTTP20, <<72, 84, 84, 80, 47, 49, 46>>}

LineEnds == {<<>>, <<LF>>}

Tails == {<<>>, <<120, LF>>}

TwinTails == {<<>>, <<120>>, <<LF>>, HEADER, <<SP>> \o HTTP10 \o <<LF>>}

Buffers ==
    {m \o s1 \o u \o s2 \o v \o Repeat(CR, k) \o e \o t :
        m \in Methods, s1 \in Seps, u \in Uris, s2 \in Seps, v \in Versions,
        k \in 0..MaxCR, e \in LineEnds, t \in Tails}

UriHeads == {<<>>, http_scheme_prefix, <<104, 116, 116, 112, 58, 47>>}

UriTokens ==
    {h \o t : h \in UriHeads, t \in SeqsUpTo({SLASH, 104, 58}, MaxUriTail)}

SplitAlphabet == {SP, LF, SLASH, 97}

SplitInputs == SeqsUpTo(SplitAlphabet, MaxSplitLen)

\* The first occurrence of s in b (1-based), 0 when there is none.
FirstPos(b, s) ==
    IF \E i \in 1..Len(b) : b[i] = s
    THEN CHOOSE i \in 1..Len(b) : b[i] = s /\ \A j \in 1..(i - 1) : b[j] # s
    ELSE 0

Occurs(b, s) == FirstPos(b, s) # 0

\* The buffer up to and including its first line-feed.
ThroughFirstLF(b) == SubSeq(b, 1, FirstPos(b, LF))

----------------------------------------------------------------------------
(* State machine: one call per action, on an input fixed by Init *)

NoRet == [kind |-> "none"]
NoPath == [called |-> FALSE, panic |-> FALSE, path |-> <<>>]

Idle ==
    /\ pc = "start"
    /\ ret = NoRet
    /\ request = NoRet
    /\ path = NoPath
    /\ version = "none"
    /\ twin = <<>>
    /\ twin_request = NoRet

Init ==
    /\ bytes \in Buffers
    /\ separator = LF
    /\ Idle

InitUri ==
    /\ bytes \in UriTokens
    /\ separator = SLASH
    /\ Idle

InitSplit ==
    /\ bytes \in SplitInputs
    /\ separator \in SplitAlphabet
    /\ Idle

Call_split ==
    /\ pc = "start"
    /\ pc' = "split"
    /\ ret' = split(bytes, separator)
    /\ UNCHANGED <<bytes, separator, request, path, version, twin, twin_request>>

\* Uri::new(bytes).get_abs_path()
Call_get_abs_path ==
    /\ pc = "start"
    /\ pc' = "get_abs_path"
    /\ ret' = get_abs_path(bytes)
    /\ UNCHANGED <<bytes, separator, request, path, version, twin, twin_request>>

Call_RequestLine_try_from ==
    /\ pc = "start"
    /\ pc' = "line"
    /\ ret' = RequestLine_try_from(bytes)
    /\ UNCHANGED <<bytes, separator, request, path, version, twin, twin_request>>

Call_Request_try_from ==
    /\ pc = "start"
    /\ pc' = "request"
    /\ request' = Request_try_from(bytes)
    /\ UNCHANGED <<bytes, separator, ret, path, version, twin, twin_request>>

\* request.uri().get_abs_path() on a Request that was built
Call_uri_get_abs_path ==
    /\ pc = "request"
    /\ request.kind = "Ok"
    /\ ~path.called
    /\ path' = [called |-> TRUE,
                panic  |-> get_abs_path(Request_uri(request)).panic,
                path   |-> get_abs_path(Request_uri(request)).path]
    /\ UNCHANGED <<bytes, separator, pc, ret, request, version, twin, twin_request>>

\* request.http_version() on a Request that was built
Call_http_version ==
    /\ pc = "request"
    /\ request.kind = "Ok"
    /\ version = "none"
    /\ version' = Request_http_version(request)
    /\ UNCHANGED <<bytes, separator, pc, ret, request, path, twin, twin_request>>

\* Two parses: the buffer, and a buffer that agrees with it through the first
\* line-feed and goes on differently (both without line-feed when it has none).
Call_Request_try_from_twice ==
    /\ pc = "start"
    /\ \E t \in TwinTails :
          /\ Occurs(bytes, LF) \/ ~Occurs(t, LF)
          /\ twin' = (IF Occurs(bytes, LF) THEN ThroughFirstLF(bytes) ELSE bytes) \o t
    /\ pc' = "pair"
    /\ request' = Request_try_from(bytes)
    /\ twin_request' = Request_try_from(twin')
    /\ UNCHANGED <<bytes, separator, ret, path, version>>

Next ==
    \/ Call_RequestLine_try_from
    \/ Call_Request_try_from
    \/ Call_uri_get_abs_path
    \/ Call_http_version
    \/ Call_Request_try_from_twice

NextUri == Call_get_abs_path

NextSplit == Call_split

Spec == Init /\ [][Next]_vars

SpecUri == InitUri /\ [][NextUri]_vars

SpecSplit == InitSplit /\ [][NextSplit]_vars

----------------------------------------------------------------------------
(* Properties *)

\* C3: for every byte sequence and separator, split returns the bytes before
\* the first occurrence of the separator and the bytes after it (after is
\* empty when that occurrence is the last byte, and the separator at that
\* position is in neither half); when the separator does not occur it
\* returns an empty first half and the whole input as second half.
SplitAtFirstOccurrence ==
    pc = "split" =>
        LET i == FirstPos(bytes, separator)
        IN  IF i = 0
            THEN ret.before = <<>> /\ ret.after = bytes
            ELSE /\ ret.before = SubSeq(bytes, 1, i - 1)
                 /\ ret.after = SubSeq(bytes, i + 1, Len(bytes))
                 /\ Len(ret.before) + 1 + Len(ret.after) = Len(bytes)
                 /\ ~Occurs(ret.before, separator)
                 /\ (i = Len(bytes) => ret.after = <<>>)

\* split has run on an input holding the separator twice, the second time
\* as its last byte.
SplitWitness ==
    /\ pc = "split"
    /\ Len(bytes) >= 3
    /\ FirstPos(bytes, separator) = 2
    /\ bytes[Len(bytes)] = separator
    /\ ret.before = <<bytes[1]>>
    /\ Occurs(ret.after, separator)

\* b is a suffix of t.
IsSuffix(b, t) ==
    Len(b) <= Len(t) /\ SubSeq(t, Len(t) - Len(b) + 1, Len(t)) = b

\* C2: for every URI token, the empty token included, get_abs_path returns
\* a value without panicking or reading out of bounds, and for the empty
\* token the value is the empty slice.
AbsPathNeverPanics ==
    pc = "get_abs_path" =>
        /\ ~ret.panic
        /\ (bytes = <<>> => ret.path = <<>>)

\* C4: for every non-empty token t, get_abs_path returns: when t starts with
\* http://, empty if nothing follows the prefix, if the host is empty or if
\* no '/' follows the host, and otherwise the suffix of t from the first '/'
\* after the prefix on; when t does not start with http://, t itself if its
\* first byte is '/' and empty if not.  So every result is empty or a suffix
\* of t that starts with '/'.
AbsPathOfNonEmptyToken ==
    (pc = "get_abs_path" /\ bytes # <<>>) =>
        /\ ~ret.panic
        /\ IF starts_with(bytes, http_scheme_prefix)
           THEN LET n    == Len(http_scheme_prefix)
                    rest == SubSeq(bytes, n + 1, Len(bytes))
                    i    == FirstPos(rest, SLASH)
                IN  IF rest = <<>> \/ i = 0 \/ i = 1
                    THEN ret.path = <<>>
                    ELSE ret.path = SubSeq(bytes, n + i, Len(bytes))
           ELSE IF bytes[1] = SLASH
                THEN ret.path = bytes
                ELSE ret.path = <<>>
        /\ \/ ret.path = <<>>
           \/ IsSuffix(ret.path, bytes) /\ ret.path[1] = SLASH

\* get_abs_path has run on an absolute-form token with a host and a path of
\* more than one byte, and returned that path.
AbsPathWitness ==
    /\ pc = "get_abs_path"
    /\ starts_with(bytes, http_scheme_prefix)
    /\ Len(bytes) = Len(http_scheme_prefix) + 4
    /\ bytes[Len(http_scheme_prefix) + 1] # SLASH
    /\ ~ret.panic
    /\ Len(ret.path) = 2
    /\ ret.path[1] = SLASH

----------------------------------------------------------------------------
(* The request line, read off the bytes *)

\* The bytes before the first s, empty when s does not occur.
TokenBefore(b, s) ==
    IF Occurs(b, s) THEN SubSeq(b, 1, FirstPos(b, s) - 1) ELSE <<>>

\* The bytes after the first s, all of them when s does not occur.
RestAfter(b, s) == SubSeq(b, FirstPos(b, s) + 1, Len(b))

MethodToken(line) == TokenBefore(line, SP)
UriToken(line) == TokenBefore(RestAfter(line, SP), SP)
VersionToken(line) == TokenBefore(RestAfter(RestAfter(line, SP), SP), LF)

\* At most one trailing CR removed, and only from a token of two bytes or more.
WithoutOneCR(v) ==
    IF Len(v) > 1 /\ v[Len(v)] = CR THEN SubSeq(v, 1, Len(v) - 1) ELSE v

ValidUriToken(u) == u # <<>> /\ from_utf8_is_ok(u)

\* The three checks of a request line.
LineAccepted(line) ==
    /\ Occurs(line, SP)
    /\ MethodToken(line) = GET
    /\ Occurs(RestAfter(line, SP), SP)
    /\ ValidUriToken(UriToken(line))
    /\ Occurs(RestAfter(RestAfter(line, SP), SP), LF)
    /\ WithoutOneCR(VersionToken(line)) \in {HTTP10, HTTP11}

\* The first check that fails, in the order method, URI, version.
FirstInvalid(line) ==
    IF MethodToken(line) # GET THEN "InvalidHttpMethod"
    ELSE IF ~ValidUriToken(UriToken(line)) THEN "InvalidUri"
    ELSE IF WithoutOneCR(VersionToken(line)) \notin {HTTP10, HTTP11}
         THEN "InvalidHttpVersion"
    ELSE "Ok"

\* The candidate request line of a buffer: the bytes before its first
\* line-feed, empty when it has none.
CandidateLine(b) == TokenBefore(b, LF)

\* 3 + 1 + 8 + 3
MinLineLen == 3 + 1 + 8 + 3

\* The first line of the buffer is GET SP URI SP VERSION [CR] LF.
FollowsGrammar(b) ==
    /\ Occurs(b, LF)
    /\ LineAccepted(ThroughFirstLF(b))

\* C1: Request::try_from succeeds on every buffer whose first line is
\* GET SP URI SP VERSION followed by an optional CR and a LF, with URI any
\* non-empty valid UTF-8 token without SP or LF and VERSION HTTP/1.0 or
\* HTTP/1.1; the minimum-length guard rejects none of them.
GrammarLineAccepted ==
    (pc = "request" /\ FollowsGrammar(bytes)) => request.kind = "Ok"

\* C5: RequestLine::try_from succeeds exactly when the bytes before the
\* first SP are GET, the bytes between the first and the second SP are
\* non-empty valid UTF-8, and the bytes between the second SP and the next
\* LF, less at most one trailing CR, are HTTP/1.0 or HTTP/1.1; the result
\* then holds method Get, that URI token as written and the version that
\* matched.  Every RequestLine built, also inside a Request, passes these
\* checks.
LineAcceptedIffChecks ==
    /\ pc = "line" =>
          /\ ret.kind = "Ok" <=> LineAccepted(bytes)
          /\ ret.kind = "Ok" =>
                /\ ret.method = "Get"
                /\ ret.uri = UriToken(bytes)
                /\ ret.http_version =
                      (IF WithoutOneCR(VersionToken(bytes)) = HTTP10
                       THEN "Http10" ELSE "Http11")
          /\ ret.kind # "Ok" =>
                ret.method = "none" /\ ret.uri = <<>> /\ ret.http_version = "none"
    /\ (pc \in {"request", "pair"} /\ request.kind = "Ok") =>
          LineAccepted(ThroughFirstLF(bytes))

\* RequestLine::try_from has accepted a line whose version is HTTP/1.1
\* followed by CR LF.
LineAcceptedWitness ==
    /\ pc = "line"
    /\ ret.kind = "Ok"
    /\ ret.http_version = "Http11"
    /\ VersionToken(bytes) = HTTP11 \o <<CR>>
    /\ Len(ret.uri) > 1

\* Two buffers agree through the first line-feed (or neither has one).
AgreeThroughFirstLF(a, b) ==
    IF Occurs(a, LF)
    THEN Occurs(b, LF) /\ ThroughFirstLF(a) = ThroughFirstLF(b)
    ELSE ~Occurs(b, LF)

\* C6: the outcome of Request::try_from depends only on the bytes up to and
\* including the first line-feed: two buffers that agree on them get the
\* same error, or both succeed with the same method, URI token and version.
OutcomeIgnoresRemainder ==
    (pc = "pair" /\ AgreeThroughFirstLF(bytes, twin)) =>
        /\ request.kind = twin_request.kind
        /\ request.method = twin_request.method
        /\ request.uri = twin_request.uri
        /\ request.http_version = twin_request.http_version

\* Two buffers with the same accepted first line and different remainders
\* have both been parsed.
OutcomeIgnoresRemainderWitness ==
    /\ pc = "pair"
    /\ AgreeThroughFirstLF(bytes, twin)
    /\ Len(twin) > Len(bytes) + 1
    /\ request.kind = "Ok"
    /\ twin_request.kind = "Ok"

RequestNeverPanics ==
    /\ pc = "line" => ret.kind # "panic"
    /\ request.kind # "panic"
    /\ twin_request.kind # "panic"
    /\ ~path.panic
    /\ request.kind = "Ok" =>
          /\ request.uri # <<>>
          /\ request.http_version \in {"Http10", "Http11"}
    /\ path.called => (path.path = <<>> \/ IsSuffix(path.path, request.uri))
    /\ (pc = "request" /\ version # "none") => version = request.http_version

\* A Request was built from an absolute-form URI and both accessors have
\* run on it.
RequestNeverPanicsWitness ==
    /\ pc = "request"
    /\ request.kind = "Ok"
    /\ starts_with(request.uri, http_scheme_prefix)
    /\ path.called
    /\ path.path # <<>>
    /\ version = "Http10"

\* C10: in RequestLine::try_from an absent separator shows as an empty token
\* that is rejected: a line without SP fails with the unsupported-method
\* error, a line that begins GET SP and has no second SP fails with the
\* invalid-URI error, and a line with valid method and URI and no LF after
\* the version fails with the unsupported-version error.
AbsentSeparatorRejected ==
    pc = "line" =>
        /\ ~Occurs(bytes, SP) => ret.kind = "InvalidHttpMethod"
        /\ (starts_with(bytes, GET \o <<SP>>)
              /\ ~Occurs(SubSeq(bytes, Len(GET) + 2, Len(bytes)), SP))
           => ret.kind = "InvalidUri"
        /\ (/\ starts_with(bytes, GET \o <<SP>>)
            /\ Occurs(RestAfter(bytes, SP), SP)
            /\ ValidUriToken(UriToken(bytes))
            /\ ~Occurs(RestAfter(RestAfter(bytes, SP), SP), LF))
           => ret.kind = "InvalidHttpVersion"

\* RequestLine::try_from has rejected, with the unsupported-version error, a
\* line GET SP URI SP HTTP/1.0 that holds no line-feed.
AbsentSeparatorWitness ==
    /\ pc = "line"
    /\ starts_with(bytes, GET \o <<SP>>)
    /\ ValidUriToken(UriToken(bytes))
    /\ RestAfter(RestAfter(bytes, SP), SP) = HTTP10
    /\ ret.kind = "InvalidHttpVersion"

====
